---- MODULE Spec2Model ----
(***************************************************************************)
(* A model of two parts of the wasmer embedding boundary:                  *)
(*                                                                         *)
(*   lib/c-api/src/wasm_c_api/engine.rs   the engine configuration and     *)
(*       the engine constructors of the C API;                             *)
(*   lib/engine/src/export.rs             the Export value, its            *)
(*       conversion to and from VMExport, and the reference-counted        *)
(*       ExportFunctionMetadata that owns the master host environment.     *)
(*                                                                         *)
(* A cargo feature set is a value of the model (the variable features);    *)
(* every cfg / cfg_if! branch of the source is an IF on that value.        *)
(***************************************************************************)
EXTENDS Integers, FiniteSets, Bags, TLC

VARIABLES
    \* wasm_c_api/engine.rs
    features,    \* the cargo features this build was compiled with
    config,      \* the wasm_config_t the embedder holds, or NoConfig
    engine,      \* the Option<Box<wasm_engine_t>> the embedder holds
    last_error,  \* the process-wide last-error slot
    call,        \* the latest C API call: its name, arguments and effects
    panicked,    \* a call has panicked
    \* engine/export.rs
    metas,       \* the Arc<ExportFunctionMetadata> allocations
    exports,     \* the bag of Export::Function values the embedder holds
    threads,     \* each thread's position inside Arc::drop
    allocated,   \* the number of host environments allocated so far
    drop_calls,  \* per pointer (NULL too), the calls of host_env_drop_fn on it
    init_calls,  \* per host environment, the calls of the initializer on it
    instances,   \* the instances and the host environment clone each owns
    conv         \* an Export on its way through VMExport and back

engineVars == <<features, config, engine, last_error, call, panicked>>

exportVars == <<metas, exports, threads, allocated, drop_calls, init_calls, instances>>

vars == <<features, config, engine, last_error, call, panicked,
          metas, exports, threads, allocated, drop_calls, init_calls,
          instances, conv>>

(***************************************************************************)
(*                     PART I: wasm_c_api/engine.rs                        *)
(***************************************************************************)

\* The cargo features the source tests with #[cfg(feature = ...)].
CompilerBackendFeatures == {"cranelift", "llvm", "singlepass"}

EngineFeatures == {"jit", "native", "object-file"}

AllFeatures == {"compiler"} \cup CompilerBackendFeatures \cup EngineFeatures

\* enum wasmer_compiler_t { CRANELIFT = 0, LLVM = 1, SINGLEPASS = 2 }
wasmer_compiler_t == {"CRANELIFT", "LLVM", "SINGLEPASS"}

\* enum wasmer_engine_t { JIT = 0, NATIVE = 1, OBJECT_FILE = 2 }
wasmer_engine_t == {"JIT", "NATIVE", "OBJECT_FILE"}

\* The value standing for "this build's wasm_config_t has no compiler field"
\* (the field is #[cfg(feature = "compiler")]).
NoCompilerField == "none"

\* A Default that ignores the features: always the first variant.
wasmer_compiler_t_default_first_variant(F) == "CRANELIFT"

\* impl Default for wasmer_compiler_t: the first compiled-in backend in the
\* order cranelift, llvm, singlepass; compile_error! when there is none.
wasmer_compiler_t_default(F) ==
    IF "cranelift" \in F THEN "CRANELIFT"
    ELSE IF "llvm" \in F THEN "LLVM"
    ELSE IF "singlepass" \in F THEN "SINGLEPASS"
    ELSE "compile_error"

\* impl Default for wasmer_engine_t: the first compiled-in engine in the
\* order jit, native, object-file; compile_error! when there is none.
wasmer_engine_t_default(F) ==
    IF "jit" \in F THEN "JIT"
    ELSE IF "native" \in F THEN "NATIVE"
    ELSE IF "object-file" \in F THEN "OBJECT_FILE"
    ELSE "compile_error"

\* A default compiler configuration that tries llvm before cranelift.
get_default_compiler_config_llvm_first(F) ==
    IF "llvm" \in F THEN "llvm"
    ELSE IF "cranelift" \in F THEN "cranelift"
    ELSE IF "singlepass" \in F THEN "singlepass"
    ELSE "compile_error"

\* fn get_default_compiler_config(): the CompilerConfig of the first
\* compiled-in backend, named by its crate.
get_default_compiler_config(F) ==
    IF "cranelift" \in F THEN "cranelift"
    ELSE IF "llvm" \in F THEN "llvm"
    ELSE IF "singlepass" \in F THEN "singlepass"
    ELSE "compile_error"

\* A feature set the crate builds with: no compile_error! is expanded.
\* wasmer_engine_t::default is always compiled; wasmer_compiler_t::default and
\* get_default_compiler_config only under feature "compiler".
Compiles(F) ==
    /\ wasmer_engine_t_default(F) # "compile_error"
    /\ "compiler" \in F =>
          /\ wasmer_compiler_t_default(F) # "compile_error"
          /\ get_default_compiler_config(F) # "compile_error"

\* The builds of the crate.
Builds == {F \in SUBSET AllFeatures : Compiles(F)}

\* struct wasm_config_t { engine, #[cfg(feature = "compiler")] compiler }
NoConfig == [tag |-> "none"]

Config(e, c) == [tag |-> "config", engine |-> e, compiler |-> c]

\* wasm_config_new: Box::new(wasm_config_t::default()).
wasm_config_new(F) ==
    Config(wasmer_engine_t_default(F),
           IF "compiler" \in F THEN wasmer_compiler_t_default(F)
                               ELSE NoCompilerField)

\* A setter that makes a configuration anew around the compiler it is
\* given, with the first engine.
wasm_config_set_compiler_resetting_engine(cfg, compiler) ==
    Config("JIT", compiler)

\* wasm_config_set_compiler: config.compiler = compiler.
wasm_config_set_compiler(cfg, compiler) ==
    [cfg EXCEPT !.compiler = compiler]

\* wasm_config_set_engine: config.engine = engine.
wasm_config_set_engine(cfg, eng) ==
    [cfg EXCEPT !.engine = eng]

\* Option<Box<wasm_engine_t>>: None, or an engine of some kind built around
\* some compiler configuration ("headless": none).
Absent == [tag |-> "absent"]

Handle(kind, compiler) == [tag |-> "handle", kind |-> kind, compiler |-> compiler]

\* The process-wide last-error slot, empty at process start.
NoError == ""

\* The text of return_with_error's six messages (the source's backquotes are
\* written as single quotes here).
NotCompiledWith(feature) ==
    CASE feature = "cranelift" ->
            "Wasmer has not been compiled with the 'cranelift' feature."
      [] feature = "llvm" ->
            "Wasmer has not been compiled with the 'llvm' feature."
      [] feature = "singlepass" ->
            "Wasmer has not been compiled with the 'singlepass' feature."
      [] feature = "jit" ->
            "Wasmer has not been compiled with the 'jit' feature."
      [] feature = "native" ->
            "Wasmer has not been compiled with the 'native' feature."
      [] feature = "object-file" ->
            "Wasmer has not been compiled with the 'object-file' feature."

\* crate::error::update_last_error: the slot holds the latest error.
update_last_error(slot, msg) == msg

\* What a call leaves behind: its return value, the last-error slot, the
\* number of update_last_error calls it made, and whether it panicked.
Outcome(ret, slot, writes, panic) ==
    [ret |-> ret, slot |-> slot, writes |-> writes, panic |-> panic]

\* An error path that keeps the error the slot already holds.
return_with_error_keeping_first(slot, msg) ==
    Outcome(Absent, IF slot = NoError THEN update_last_error(slot, msg) ELSE slot,
            1, FALSE)

\* fn return_with_error(msg): update_last_error(CApiError { msg }); None.
return_with_error(slot, msg) ==
    Outcome(Absent, update_last_error(slot, msg), 1, FALSE)

\* A success path that also clears the last-error slot.
return_engine_clearing_slot(slot, kind, compiler) ==
    Outcome(Handle(kind, compiler), NoError, 0, FALSE)

\* Some(Box::new(wasm_engine_t { inner })): the slot is not touched.
return_engine(slot, kind, compiler) ==
    Outcome(Handle(kind, compiler), slot, 0, FALSE)

\* The `match config.compiler` of wasm_engine_new_with_config: the compiler
\* configuration, or the feature whose absence makes the function return.
CompilerOk(cc) == [ok |-> TRUE, compiler |-> cc]

CompilerMissing(feature) == [ok |-> FALSE, feature |-> feature]

\* The LLVM arm testing the feature of the arm above it.
match_config_compiler_llvm_tests_cranelift(F, compiler) ==
    CASE compiler = "CRANELIFT" ->
            IF "cranelift" \in F THEN CompilerOk("cranelift")
                                 ELSE CompilerMissing("cranelift")
      [] compiler = "LLVM" ->
            IF "cranelift" \in F THEN CompilerOk("llvm")
                                 ELSE CompilerMissing("llvm")
      [] compiler = "SINGLEPASS" ->
            IF "singlepass" \in F THEN CompilerOk("singlepass")
                                  ELSE CompilerMissing("singlepass")

match_config_compiler(F, compiler) ==
    CASE compiler = "CRANELIFT" ->
            IF "cranelift" \in F THEN CompilerOk("cranelift")
                                 ELSE CompilerMissing("cranelift")
      [] compiler = "LLVM" ->
            IF "llvm" \in F THEN CompilerOk("llvm")
                            ELSE CompilerMissing("llvm")
      [] compiler = "SINGLEPASS" ->
            IF "singlepass" \in F THEN CompilerOk("singlepass")
                                  ELSE CompilerMissing("singlepass")

\* An OBJECT_FILE arm that hands the compiler to the engine, as the JIT and
\* NATIVE arms do.
match_config_engine_compiler_object_file_compiles(F, slot, eng, compiler_config) ==
    CASE eng = "JIT" ->
            IF "jit" \in F
            THEN return_engine(slot, "jit", compiler_config)
            ELSE return_with_error(slot, NotCompiledWith("jit"))
      [] eng = "NATIVE" ->
            IF "native" \in F
            THEN return_engine(slot, "native", compiler_config)
            ELSE return_with_error(slot, NotCompiledWith("native"))
      [] eng = "OBJECT_FILE" ->
            IF "object-file" \in F
            THEN return_engine(slot, "object-file", compiler_config)
            ELSE return_with_error(slot, NotCompiledWith("object-file"))

\* The `match config.engine` of the cfg(feature = "compiler") branch.
match_config_engine_compiler(F, slot, eng, compiler_config) ==
    CASE eng = "JIT" ->
            IF "jit" \in F
            THEN return_engine(slot, "jit", compiler_config)
            ELSE return_with_error(slot, NotCompiledWith("jit"))
      [] eng = "NATIVE" ->
            IF "native" \in F
            THEN return_engine(slot, "native", compiler_config)
            ELSE return_with_error(slot, NotCompiledWith("native"))
      [] eng = "OBJECT_FILE" ->
            IF "object-file" \in F
            THEN return_engine(slot, "object-file", "headless")
            ELSE return_with_error(slot, NotCompiledWith("object-file"))

\* The `match config.engine` of the branch without feature "compiler".
match_config_engine_headless(F, slot, eng) ==
    CASE eng = "JIT" ->
            IF "jit" \in F
            THEN return_engine(slot, "jit", "headless")
            ELSE return_with_error(slot, NotCompiledWith("jit"))
      [] eng = "NATIVE" ->
            IF "native" \in F
            THEN return_engine(slot, "native", "headless")
            ELSE return_with_error(slot, NotCompiledWith("native"))
      [] eng = "OBJECT_FILE" ->
            IF "object-file" \in F
            THEN return_engine(slot, "object-file", "headless")
            ELSE return_with_error(slot, NotCompiledWith("object-file"))

\* The two matches in the other order: the engine's feature is tested before
\* the compiler's.
new_with_config_compiler_engine_first(F, slot, cfg) ==
    LET cc == match_config_compiler(F, cfg.compiler)
        out == match_config_engine_compiler(F, slot, cfg.engine,
                   IF cc.ok THEN cc.compiler ELSE "headless") IN
    IF out.ret = Absent \/ cc.ok
    THEN out
    ELSE return_with_error(slot, NotCompiledWith(cc.feature))

\* The cfg(feature = "compiler") branch: the compiler first (returning at
\* once when its backend is missing), the engine second.
new_with_config_compiler(F, slot, cfg) ==
    LET cc == match_config_compiler(F, cfg.compiler) IN
    IF cc.ok
    THEN match_config_engine_compiler(F, slot, cfg.engine, cc.compiler)
    ELSE return_with_error(slot, NotCompiledWith(cc.feature))

\* wasm_engine_new_with_config(config).
wasm_engine_new_with_config(F, slot, cfg) ==
    IF "compiler" \in F
    THEN new_with_config_compiler(F, slot, cfg)
    ELSE match_config_engine_headless(F, slot, cfg.engine)

\* A cfg_if! chain without the object-file arm.
wasm_engine_new_without_object_file(F, slot) ==
    IF "jit" \in F /\ "compiler" \in F
    THEN return_engine(slot, "jit", get_default_compiler_config(F))
    ELSE IF "jit" \in F
    THEN return_engine(slot, "jit", "headless")
    ELSE IF "native" \in F /\ "compiler" \in F
    THEN return_engine(slot, "native", get_default_compiler_config(F))
    ELSE IF "native" \in F
    THEN return_engine(slot, "native", "headless")
    ELSE Outcome(Absent, slot, 0, TRUE)

\* wasm_engine_new(): the cfg_if! chain jit+compiler, jit, native+compiler,
\* native, object-file, and unimplemented!() when no engine is compiled in.
wasm_engine_new(F, slot) ==
    IF "jit" \in F /\ "compiler" \in F
    THEN return_engine(slot, "jit", get_default_compiler_config(F))
    ELSE IF "jit" \in F
    THEN return_engine(slot, "jit", "headless")
    ELSE IF "native" \in F /\ "compiler" \in F
    THEN return_engine(slot, "native", get_default_compiler_config(F))
    ELSE IF "native" \in F
    THEN return_engine(slot, "native", "headless")
    ELSE IF "object-file" \in F
    THEN return_engine(slot, "object-file", "headless")
    ELSE Outcome(Absent, slot, 0, TRUE)

\* The record of a C API call: the function, the configuration it was given
\* (NoConfig when it takes none), the wasmer_compiler_t or wasmer_engine_t
\* it was given (NoChoice when it takes none), the last-error slot before
\* it, and the number of update_last_error calls it made.
NoChoice == "none"

Call(fn, cfg, slot_before, writes) ==
    [fn |-> fn, cfg |-> cfg, choice |-> NoChoice, slot_before |-> slot_before,
     writes |-> writes]

SetterCall(fn, cfg, choice, slot_before) ==
    [Call(fn, cfg, slot_before, 0) EXCEPT !.choice = choice]

NoCall == Call("none", NoConfig, NoError, 0)

\* wasm_config_t* config = wasm_config_new();
Call_wasm_config_new ==
    /\ ~panicked
    /\ config' = wasm_config_new(features)
    /\ call' = Call("wasm_config_new", NoConfig, last_error, 0)
    /\ UNCHANGED <<features, engine, last_error, panicked, exportVars, conv>>

\* wasm_config_set_compiler(config, compiler); the function exists only
\* under feature "compiler".
Call_wasm_config_set_compiler ==
    /\ ~panicked
    /\ "compiler" \in features
    /\ config # NoConfig
    /\ \E compiler \in wasmer_compiler_t :
          /\ config' = wasm_config_set_compiler(config, compiler)
          /\ call' = SetterCall("wasm_config_set_compiler", config, compiler,
                                last_error)
    /\ UNCHANGED <<features, engine, last_error, panicked, exportVars, conv>>

\* wasm_config_set_engine(config, engine);
Call_wasm_config_set_engine ==
    /\ ~panicked
    /\ config # NoConfig
    /\ \E e \in wasmer_engine_t :
          /\ config' = wasm_config_set_engine(config, e)
          /\ call' = SetterCall("wasm_config_set_engine", config, e, last_error)
    /\ UNCHANGED <<features, engine, last_error, panicked, exportVars, conv>>

\* engine = wasm_engine_new_with_config(config); the Box<wasm_config_t> is
\* consumed.
Call_wasm_engine_new_with_config ==
    /\ ~panicked
    /\ config # NoConfig
    /\ LET out == wasm_engine_new_with_config(features, last_error, config) IN
          /\ engine' = out.ret
          /\ last_error' = out.slot
          /\ panicked' = out.panic
          /\ call' = Call("wasm_engine_new_with_config", config, last_error,
                          out.writes)
    /\ config' = NoConfig
    /\ UNCHANGED <<features, exportVars, conv>>

\* engine = wasm_engine_new();
Call_wasm_engine_new ==
    /\ ~panicked
    /\ LET out == wasm_engine_new(features, last_error) IN
          /\ engine' = out.ret
          /\ last_error' = out.slot
          /\ panicked' = out.panic
          /\ call' = Call("wasm_engine_new", NoConfig, last_error, out.writes)
    /\ UNCHANGED <<features, config, exportVars, conv>>

\* wasm_engine_delete(engine): the Option<Box<wasm_engine_t>> is dropped.
Call_wasm_engine_delete ==
    /\ ~panicked
    /\ engine' = Absent
    /\ call' = Call("wasm_engine_delete", NoConfig, last_error, 0)
    /\ UNCHANGED <<features, config, last_error, panicked, exportVars, conv>>

(***************************************************************************)
(*                       PART II: engine/export.rs                         *)
(***************************************************************************)

\* The Export values the embedder may hold at once.
MaxExports == 3

\* The ExportFunctionMetadata objects registered in one run.
MaxMetas == 1

\* The instances created in one run.
MaxInstances == 2

\* The descriptors (VMExportFunction, VMExportTable, ...) an export wraps.
MaxDescriptors == 2

MetaIds == 1..MaxMetas

InstanceIds == 1..MaxInstances

Descriptors == 1..MaxDescriptors

\* The two threads that may drop Export values.
Threads == {"t1", "t2"}

\* The thread that drops Export values while instances come and go.
InstanceThreads == {"t1"}

\* A *mut c_void is NULL, names one allocation, or is Dangling: the non-null
\* pointer of a Box of a zero-sized value, which names no allocation and is
\* the same for every such Box.  An allocation is never named twice.  Each
\* metadata and each instance allocates at most one host environment.
NULL == 0

Dangling == -1

Ptrs == 1..(MaxMetas + MaxInstances)

\* Option<Arc<ExportFunctionMetadata>>
None == [tag |-> "None"]

Some(m) == [tag |-> "Some", arc |-> m]

\* enum Export { Function(ExportFunction), Table(ExportTable),
\*               Memory(ExportMemory), Global(ExportGlobal) }
Export_Function(vm_function, metadata) ==
    [tag |-> "Function", vm_function |-> vm_function, metadata |-> metadata]

Export_Table(vm_table) == [tag |-> "Table", vm_table |-> vm_table]

Export_Memory(vm_memory) == [tag |-> "Memory", vm_memory |-> vm_memory]

Export_Global(vm_global) == [tag |-> "Global", vm_global |-> vm_global]

\* wasmer_vm::VMExport, whose variants wrap the descriptor alone.
VMExport_Function(f) == [tag |-> "Function", inner |-> f]

VMExport_Table(t) == [tag |-> "Table", inner |-> t]

VMExport_Memory(m) == [tag |-> "Memory", inner |-> m]

VMExport_Global(g) == [tag |-> "Global", inner |-> g]

NoExport == [tag |-> "NoExport"]

NoVMExport == [tag |-> "NoVMExport"]

\* Every Export value over the descriptors and the metadata objects.
Exports ==
    {Export_Function(d, md) :
        d \in Descriptors, md \in {None} \cup {Some(m) : m \in MetaIds}}
    \cup {Export_Table(d) : d \in Descriptors}
    \cup {Export_Memory(d) : d \in Descriptors}
    \cup {Export_Global(d) : d \in Descriptors}

\* A conversion that carries the metadata of a Function over into the
\* VMExport.
to_internal_keeping_metadata(other) ==
    CASE other.tag = "Function" ->
            [tag |-> "Function", inner |-> other.vm_function,
             metadata |-> other.metadata]
      [] other.tag = "Memory" -> VMExport_Memory(other.vm_memory)
      [] other.tag = "Table" -> VMExport_Table(other.vm_table)
      [] other.tag = "Global" -> VMExport_Global(other.vm_global)

\* impl From<Export> for VMExport
to_internal(other) ==
    CASE other.tag = "Function" -> VMExport_Function(other.vm_function)
      [] other.tag = "Memory" -> VMExport_Memory(other.vm_memory)
      [] other.tag = "Table" -> VMExport_Table(other.vm_table)
      [] other.tag = "Global" -> VMExport_Global(other.vm_global)

\* The Memory and Table arms building each other's variant.
from_internal_memory_table_swapped(other) ==
    CASE other.tag = "Function" -> Export_Function(other.inner, None)
      [] other.tag = "Memory" -> Export_Table(other.inner)
      [] other.tag = "Table" -> Export_Memory(other.inner)
      [] other.tag = "Global" -> Export_Global(other.inner)

\* impl From<VMExport> for Export
from_internal(other) ==
    CASE other.tag = "Function" -> Export_Function(other.inner, None)
      [] other.tag = "Memory" -> Export_Memory(other.inner)
      [] other.tag = "Table" -> Export_Table(other.inner)
      [] other.tag = "Global" -> Export_Global(other.inner)

\* The Arc<ExportFunctionMetadata> held by an export, if any.
MetadataOf(export) ==
    IF export.tag = "Function" THEN export.metadata ELSE None

\* An Arc allocation: the strong count and the ExportFunctionMetadata in it
\* (host_env and whether import_init_function_ptr is Some).  peak and raced
\* are history: the largest strong count so far, and whether the last
\* reference was dropped while another thread was still inside Arc::drop of
\* the last but one.
Unborn ==
    [state |-> "unborn", strong |-> 0, host_env |-> NULL, init |-> FALSE,
     peak |-> 0, raced |-> FALSE]

\* ExportFunctionMetadata::new(host_env, import_init_function_ptr, ..) in
\* Arc::new: one strong reference.
ExportFunctionMetadata_new(host_env, import_init_function_ptr) ==
    [state |-> "registered", strong |-> 1, host_env |-> host_env,
     init |-> import_init_function_ptr, peak |-> 1, raced |-> FALSE]

\* A clone function that hands back the pointer it was given.
host_env_clone_fn_same_pointer(n_allocated, host_env) == host_env

\* host_env_clone_fn: "analogous to Clone::clone", "returns a leaked Box".
\* The Box of a clone of a host environment that occupies memory is a new
\* allocation, the one after those made so far; the Box of a clone of a
\* zero-sized host environment allocates nothing and its pointer is the one
\* every Box of that type has, the master's.
host_env_clone_fn(n_allocated, host_env) ==
    IF host_env = Dangling THEN Dangling ELSE n_allocated + 1

\* host_env_drop_fn(ptr): one more call of the destructor on ptr.
host_env_drop_fn(calls, ptr) == [calls EXCEPT ![ptr] = @ + 1]

\* A Drop that runs the destructor on host_env twice.
ExportFunctionMetadata_drop_twice(calls, md) ==
    IF md.host_env # NULL
    THEN host_env_drop_fn(host_env_drop_fn(calls, md.host_env), md.host_env)
    ELSE calls

\* A Drop without the null test: the destructor runs on host_env whatever
\* it is.
ExportFunctionMetadata_drop_unchecked(calls, md) ==
    host_env_drop_fn(calls, md.host_env)

\* A Drop that also frees the environments allocated after the master: the
\* clones made from it.
ExportFunctionMetadata_drop_with_clones(calls, md) ==
    IF md.host_env # NULL
    THEN [p \in DOMAIN calls |->
             IF p >= md.host_env THEN calls[p] + 1 ELSE calls[p]]
    ELSE calls

\* impl Drop for ExportFunctionMetadata: the destructor runs on host_env
\* unless host_env is null.
ExportFunctionMetadata_drop(calls, md) ==
    IF md.host_env # NULL THEN host_env_drop_fn(calls, md.host_env) ELSE calls

\* A clone that copies the pointer to the metadata without counting it.
Arc_clone_uncounted(md) == md

\* #[derive(Clone)] on ExportFunction clones the Option<Arc<..>>: Arc::clone
\* adds one strong reference.
Arc_clone(md) ==
    [md EXCEPT !.strong = @ + 1,
               !.peak = IF md.strong + 1 > @ THEN md.strong + 1 ELSE @]

\* A release that forgets the reference (as mem::forget does): the strong
\* count stays.
Arc_fetch_sub_forgetting(md) == md

\* Arc::drop, first half: strong.fetch_sub(1) in one atomic step.
Arc_fetch_sub(md) == [md EXCEPT !.strong = @ - 1]

\* A release that takes the last two owners for the last one.
Arc_was_last_off_by_one(old) == old <= 2

\* Arc::drop, second half: the thread whose fetch_sub returned 1 held the
\* last reference and drops the ExportFunctionMetadata.
Arc_was_last(old) == old = 1

\* A thread's position: idle, or between the two halves of Arc::drop of
\* metadata m, holding what fetch_sub returned.  via names the operation
\* that dropped the Export.
Idle == [pc |-> "idle", m |-> 0, old |-> 0, via |-> "none"]

InArcDrop(m, old, via) == [pc |-> "fetched", m |-> m, old |-> old, via |-> via]

\* The threads between the two halves of Arc::drop of metadata m.
InFlight(m) == {t \in Threads : threads[t].pc = "fetched" /\ threads[t].m = m}

\* The reference about to be dropped is the last one of m, and the thread
\* that dropped the last but one is still inside Arc::drop.
LastTwoRace(m) ==
    /\ metas[m].strong = 1
    /\ \E t \in InFlight(m) : threads[t].old = 2

\* An instance: the metadata it was instantiated from, the clone of the host
\* environment it owns, and the initializer it was given.
NoInstance == [state |-> "none", m |-> 0, env |-> NULL, init |-> FALSE]

\* The round trip register: an Export, the VMExport made from it, and the
\* Export made from that.
NoConv == [src |-> NoExport, vm |-> NoVMExport, dst |-> NoExport]

\* The Export values held, and whether one more can be.
Held == BagToSet(exports)

CanHoldMore == BagCardinality(exports) < MaxExports

\* The metadata id and instance id the next object gets: the lowest one not
\* in use.
UnbornMetas == {m \in MetaIds : metas[m].state = "unborn"}

NextMeta == CHOOSE m \in UnbornMetas : \A r \in UnbornMetas : m <= r

UnusedInstances == {i \in InstanceIds : instances[i].state = "none"}

NextInstance == CHOOSE i \in UnusedInstances : \A r \in UnusedInstances : i <= r

\* The descriptor plays no part in the lifetime of the metadata: the exports
\* of the lifetime actions wrap the first one.
FirstDescriptor == CHOOSE d \in Descriptors : \A e \in Descriptors : d <= e

\* A host function is registered: ExportFunctionMetadata::new on the master
\* host environment (a new allocation, or null), wrapped into an Arc and
\* into an Export::Function.
RegisterHostFunction ==
    /\ CanHoldMore
    /\ UnbornMetas # {}
    /\ \E with_env \in BOOLEAN, init \in BOOLEAN :
          LET host_env == IF with_env THEN allocated + 1 ELSE NULL IN
          /\ metas' = [metas EXCEPT
                          ![NextMeta] = ExportFunctionMetadata_new(host_env, init)]
          /\ exports' = exports (+)
                SetToBag({Export_Function(FirstDescriptor, Some(NextMeta))})
          /\ allocated' = IF with_env THEN allocated + 1 ELSE allocated
    /\ UNCHANGED <<threads, drop_calls, init_calls, instances, conv, engineVars>>

\* A host function whose host environment is a zero-sized value is
\* registered: ExportFunctionMetadata::new on the leaked Box of that value,
\* which allocates nothing.
RegisterZeroSizedHostFunction ==
    /\ CanHoldMore
    /\ UnbornMetas # {}
    /\ \E init \in BOOLEAN :
          /\ metas' = [metas EXCEPT
                          ![NextMeta] = ExportFunctionMetadata_new(Dangling, init)]
          /\ exports' = exports (+)
                SetToBag({Export_Function(FirstDescriptor, Some(NextMeta))})
    /\ UNCHANGED <<threads, allocated, drop_calls, init_calls, instances, conv,
                   engineVars>>

\* e.clone(): the derived Clone of Export and ExportFunction.
CloneExport(e) ==
    /\ e \in Held
    /\ CanHoldMore
    /\ exports' = exports (+) SetToBag({e})
    /\ LET md == MetadataOf(e) IN
          metas' = IF md = None THEN metas
                   ELSE [metas EXCEPT ![md.arc] = Arc_clone(metas[md.arc])]
    /\ UNCHANGED <<threads, allocated, drop_calls, init_calls, instances, conv,
                   engineVars>>

\* Thread t lets go of the Export e (by dropping it, or by converting it
\* with VMExport::from, which keeps vm_function and drops the rest).  With
\* metadata in it, this is the first half of Arc::drop.  What becomes of
\* conv is the caller's.
ReleaseExport(t, e, via) ==
    /\ threads[t] = Idle
    /\ e \in Held
    /\ exports' = exports (-) SetToBag({e})
    /\ LET md == MetadataOf(e) IN
          IF md = None
          THEN UNCHANGED <<metas, threads>>
          ELSE /\ metas' = [metas EXCEPT
                              ![md.arc] = [Arc_fetch_sub(metas[md.arc]) EXCEPT
                                  !.raced = @ \/ LastTwoRace(md.arc)]]
               /\ threads' = [threads EXCEPT
                              ![t] = InArcDrop(md.arc, metas[md.arc].strong, via)]
    /\ UNCHANGED <<allocated, drop_calls, init_calls, instances, engineVars>>

\* drop(e)
DropExport(t, e) ==
    /\ ReleaseExport(t, e, "drop")
    /\ UNCHANGED conv

\* VMExport::from(e) of an Export the embedder holds: the VMExport is built
\* from the descriptor and the rest of e, its metadata, is dropped.
IntoVMExport(t, e) ==
    /\ ReleaseExport(t, e, "into")
    /\ conv' = [src |-> e, vm |-> to_internal(e), dst |-> NoExport]

\* The second half of Arc::drop: the thread that held the last reference
\* runs ExportFunctionMetadata::drop; any other thread just returns.
ArcDropFinish(t) ==
    /\ threads[t].pc = "fetched"
    /\ LET m == threads[t].m IN
          IF Arc_was_last(threads[t].old)
          THEN /\ drop_calls' = ExportFunctionMetadata_drop(drop_calls, metas[m])
               /\ metas' = [metas EXCEPT ![m].state = "released"]
          ELSE UNCHANGED <<drop_calls, metas>>
    /\ threads' = [threads EXCEPT ![t] = Idle]
    /\ UNCHANGED <<exports, allocated, init_calls, instances, conv, engineVars>>

\* Instantiation imports the host function e: the instance gets its own
\* host environment, host_env_clone_fn(host_env), and a copy of
\* import_init_function_ptr.  host_env_clone_fn reads the environment it
\* clones: a function registered with a null host environment has none to
\* clone.
CloneForInstance(e) ==
    /\ UnusedInstances # {}
    /\ e \in Held
    /\ MetadataOf(e) # None
    /\ LET m == e.metadata.arc
           clone == host_env_clone_fn(allocated, metas[m].host_env) IN
          /\ metas[m].host_env # NULL
          /\ instances' = [instances EXCEPT ![NextInstance] =
                [state |-> "constructed", m |-> m, env |-> clone,
                 init |-> metas[m].init]]
          /\ allocated' = IF clone > allocated THEN clone ELSE allocated
    /\ UNCHANGED <<metas, exports, threads, drop_calls, init_calls, conv,
                   engineVars>>

\* The instance is complete: its initializer, when there is one, runs on
\* the instance's own host environment.
InitializeInstance(i) ==
    /\ instances[i].state = "constructed"
    /\ instances' = [instances EXCEPT ![i].state = "initialized"]
    /\ init_calls' = IF instances[i].init
                      THEN [init_calls EXCEPT ![instances[i].env] = @ + 1]
                      ELSE init_calls
    /\ UNCHANGED <<metas, exports, threads, allocated, drop_calls, conv,
                   engineVars>>

\* The instance, complete since InitializeInstance, is torn down:
\* host_env_drop_fn runs on its host environment.
TeardownInstance(i) ==
    /\ instances[i].state = "initialized"
    /\ instances' = [instances EXCEPT ![i].state = "torn"]
    /\ drop_calls' = host_env_drop_fn(drop_calls, instances[i].env)
    /\ UNCHANGED <<metas, exports, threads, allocated, init_calls, conv,
                   engineVars>>

\* An Export value e that owns no metadata (a Table, a Memory, a Global or a
\* Function without metadata) is about to be converted.
ConvPick ==
    /\ \E e \in Exports :
          /\ MetadataOf(e) = None
          /\ conv' = [src |-> e, vm |-> NoVMExport, dst |-> NoExport]
    /\ UNCHANGED <<exportVars, engineVars>>

\* VMExport::from(export) of an Export that owns no metadata: nothing is
\* dropped.
ConvIntoVMExport ==
    /\ conv.src # NoExport
    /\ conv.vm = NoVMExport
    /\ conv' = [conv EXCEPT !.vm = to_internal(conv.src)]
    /\ UNCHANGED <<exportVars, engineVars>>

\* Export::from(vm_export)
ConvIntoExport ==
    /\ conv.vm # NoVMExport
    /\ conv.dst = NoExport
    /\ conv' = [conv EXCEPT !.dst = from_internal(conv.vm)]
    /\ UNCHANGED <<exportVars, engineVars>>

(***************************************************************************)
(*                           Specifications                                *)
(***************************************************************************)

EngineStart ==
    /\ config = NoConfig
    /\ engine = Absent
    /\ last_error = NoError
    /\ call = NoCall
    /\ panicked = FALSE

ExportStart ==
    /\ metas = [m \in MetaIds |-> Unborn]
    /\ exports = EmptyBag
    /\ threads = [t \in Threads |-> Idle]
    /\ allocated = 0
    /\ drop_calls = [p \in {NULL, Dangling} \cup Ptrs |-> 0]
    /\ init_calls = [p \in {Dangling} \cup Ptrs |-> 0]
    /\ instances = [i \in InstanceIds |-> NoInstance]
    /\ conv = NoConv

\* The C API of any build of the crate.
EngineInit == features \in Builds /\ EngineStart /\ ExportStart

EngineNext ==
    \/ Call_wasm_config_new
    \/ Call_wasm_config_set_compiler
    \/ Call_wasm_config_set_engine
    \/ Call_wasm_engine_new_with_config
    \/ Call_wasm_engine_new
    \/ Call_wasm_engine_delete

EngineSpec == EngineInit /\ [][EngineNext]_vars

\* The exports and the host environments, in the build with every feature.
ExportInit == features = AllFeatures /\ EngineStart /\ ExportStart

\* Export values shared and dropped by two threads.
ExportNext ==
    \/ RegisterHostFunction
    \/ \E e \in Held : CloneExport(e)
    \/ \E t \in Threads, e \in Held : DropExport(t, e)
    \/ \E t \in Threads, e \in Held : IntoVMExport(t, e)
    \/ \E t \in Threads : ArcDropFinish(t)

ExportSpec == ExportInit /\ [][ExportNext]_vars

\* Instances created from the exports, while one thread drops Export values.
\* The host environment of a host function occupies memory, is zero-sized,
\* or is null.
InstanceNext ==
    \/ RegisterHostFunction
    \/ RegisterZeroSizedHostFunction
    \/ \E e \in Held : CloneExport(e)
    \/ \E t \in InstanceThreads, e \in Held : DropExport(t, e)
    \/ \E t \in InstanceThreads : ArcDropFinish(t)
    \/ \E e \in Held : CloneForInstance(e)
    \/ \E i \in InstanceIds : InitializeInstance(i)
    \/ \E i \in InstanceIds : TeardownInstance(i)

InstanceSpec == ExportInit /\ [][InstanceNext]_vars

\* The same instances, of host functions that are not shared.  Instantiation
\* is one call: once the instance is constructed, it goes on to initialize
\* it.
InitializeNext ==
    \/ RegisterHostFunction
    \/ RegisterZeroSizedHostFunction
    \/ \E t \in InstanceThreads, e \in Held : DropExport(t, e)
    \/ \E t \in InstanceThreads : ArcDropFinish(t)
    \/ \E e \in Held : CloneForInstance(e)
    \/ \E i \in InstanceIds : InitializeInstance(i)
    \/ \E i \in InstanceIds : TeardownInstance(i)

InitializeSpec ==
    /\ ExportInit
    /\ [][InitializeNext]_vars
    /\ \A i \in InstanceIds : WF_vars(InitializeInstance(i))

\* The conversions between Export and VMExport, of Exports that own metadata
\* and of Exports that own none.
ConvNext ==
    \/ RegisterHostFunction
    \/ \E e \in Held : CloneExport(e)
    \/ \E t \in InstanceThreads, e \in Held : IntoVMExport(t, e)
    \/ \E t \in InstanceThreads : ArcDropFinish(t)
    \/ ConvPick
    \/ ConvIntoVMExport
    \/ ConvIntoExport

ConvSpec == ExportInit /\ [][ConvNext]_vars

\* Everything together.
Init == EngineInit

Next ==
    \/ EngineNext
    \/ ExportNext
    \/ InstanceNext
    \/ InitializeNext
    \/ ConvNext

Spec == Init /\ [][Next]_vars

(***************************************************************************)
(*                 Properties of wasm_c_api/engine.rs                      *)
(***************************************************************************)

\* The cargo feature that compiles a wasmer_compiler_t variant's backend in.
CompilerFeatureOf(c) ==
    CASE c = "CRANELIFT" -> "cranelift"
      [] c = "LLVM" -> "llvm"
      [] c = "SINGLEPASS" -> "singlepass"

\* The cargo feature that compiles a wasmer_engine_t variant's engine in.
EngineFeatureOf(e) ==
    CASE e = "JIT" -> "jit"
      [] e = "NATIVE" -> "native"
      [] e = "OBJECT_FILE" -> "object-file"

\* The features a configuration selects in build F: its engine's and, when
\* the build has compilers at all, its compiler's.
SelectedFeatures(F, cfg) ==
    {EngineFeatureOf(cfg.engine)}
    \cup (IF "compiler" \in F THEN {CompilerFeatureOf(cfg.compiler)} ELSE {})

\* The latest call was wasm_engine_new_with_config.
Built == call.fn = "wasm_engine_new_with_config"

\* C3: wasm_engine_new_with_config returns an engine when every backend the
\* configuration selects is compiled in; when one is not, it returns None and
\* the last-error slot holds the message naming a selected backend that is
\* missing.
C3_BuildSucceedsIffBackendsCompiledIn ==
    Built =>
        LET missing == SelectedFeatures(features, call.cfg) \ features IN
        IF missing = {}
        THEN engine.tag = "handle"
        ELSE /\ engine = Absent
             /\ \E f \in missing : last_error = NotCompiledWith(f)

\* C3 witness: in a build with cranelift and without llvm, a configuration
\* that selects LLVM was built and None came back.
C3_Witness ==
    /\ Built
    /\ "compiler" \in features
    /\ call.cfg.compiler = "LLVM"
    /\ "llvm" \notin features
    /\ "cranelift" \in features
    /\ engine = Absent

\* What wasm_engine_new_with_config leaves behind when the configuration
\* asks for the object-file engine and no compiler is looked at: a headless
\* object-file engine and an untouched slot, or the object-file error.
ObjectFileHeadlessResult ==
    IF "object-file" \in features
    THEN /\ engine = Handle("object-file", "headless")
         /\ last_error = call.slot_before
         /\ call.writes = 0
    ELSE /\ engine = Absent
         /\ last_error = NotCompiledWith("object-file")

\* C4 as claimed: with engine = OBJECT_FILE the configured compiler is
\* ignored whichever it is, compiled in or not.
C4_ObjectFileIgnoresAnyCompiler ==
    (Built /\ call.cfg.engine = "OBJECT_FILE") => ObjectFileHeadlessResult

\* C4 amended: with engine = OBJECT_FILE a configured compiler that is
\* compiled in is ignored: the result is that of a build without compilers.
C4_ObjectFileIgnoresCompiledInCompiler ==
    (/\ Built
     /\ call.cfg.engine = "OBJECT_FILE"
     /\ "compiler" \in features => CompilerFeatureOf(call.cfg.compiler) \in features)
    => ObjectFileHeadlessResult

\* C4 witness: a build with compilers made a headless object-file engine out
\* of a configuration that names the singlepass compiler.
C4_Witness ==
    /\ Built
    /\ call.cfg.engine = "OBJECT_FILE"
    /\ call.cfg.compiler = "SINGLEPASS"
    /\ engine = Handle("object-file", "headless")

\* C5: the compiler is validated before the engine: a missing compiler is
\* the error reported whatever the engine, and an engine error is reported
\* only when the compiler is compiled in.
C5_CompilerValidatedBeforeEngine ==
    (Built /\ "compiler" \in features) =>
        LET cf == CompilerFeatureOf(call.cfg.compiler)
            ef == EngineFeatureOf(call.cfg.engine) IN
        /\ cf \notin features =>
              engine = Absent /\ last_error = NotCompiledWith(cf)
        /\ (engine = Absent /\ last_error = NotCompiledWith(ef)) =>
              cf \in features

\* C5 witness: a build was asked for a compiler and an engine that are both
\* missing.
C5_Witness ==
    /\ Built
    /\ "compiler" \in features
    /\ CompilerFeatureOf(call.cfg.compiler) \notin features
    /\ EngineFeatureOf(call.cfg.engine) \notin features

\* C6: a call writes the last-error slot once when it is a failing
\* wasm_engine_new_with_config and never otherwise, and a call that does not
\* write leaves the slot as it was.
C6_SlotWrittenOnlyByFailingBuild ==
    /\ call.writes = (IF Built /\ engine = Absent THEN 1 ELSE 0)
    /\ call.writes = 0 => last_error = call.slot_before

\* C6 witness: a build succeeded while the slot held an earlier error.
C6_Witness ==
    /\ Built
    /\ engine.tag = "handle"
    /\ last_error # NoError

\* C7: wasm_engine_new_with_config(wasm_config_new()) and wasm_engine_new()
\* return an engine and record no error, in every build.
C7_DefaultsBuild ==
    /\ (Built /\ call.cfg = wasm_config_new(features)) =>
          /\ engine.tag = "handle"
          /\ call.writes = 0
          /\ last_error = call.slot_before
    /\ call.fn = "wasm_engine_new" =>
          /\ engine.tag = "handle"
          /\ call.writes = 0
          /\ last_error = call.slot_before

\* C7 witness: the default configuration was built in a build whose compilers
\* do not include cranelift and whose engines do not include jit.
C7_Witness ==
    /\ Built
    /\ call.cfg = wasm_config_new(features)
    /\ "compiler" \in features
    /\ "cranelift" \notin features
    /\ "jit" \notin features
    /\ engine.tag = "handle"

\* C10: no engine constructor panics: each returns an engine or None.
C10_ConstructorsNeverPanic ==
    /\ ~panicked
    /\ call.fn \in {"wasm_engine_new", "wasm_engine_new_with_config"} =>
          engine = Absent \/ engine.tag = "handle"

\* C10 witness: wasm_engine_new has returned an engine in a build whose only
\* engine is object-file, after a wasm_engine_new_with_config that returned
\* None and left its error in the slot.
C10_Witness ==
    /\ call.fn = "wasm_engine_new"
    /\ features \cap EngineFeatures = {"object-file"}
    /\ engine.tag = "handle"
    /\ last_error # NoError

\* The latest call was a setter of the configuration.
SetCompilerCalled == call.fn = "wasm_config_set_compiler"

SetEngineCalled == call.fn = "wasm_config_set_engine"

\* What a setter leaves behind: the configuration it was given with the one
\* selection replaced by the choice, the slot as it was, and no error.
SetterRecorded ==
    /\ SetCompilerCalled =>
          /\ config = [call.cfg EXCEPT !.compiler = call.choice]
          /\ config.compiler = call.choice
          /\ config.engine = call.cfg.engine
    /\ SetEngineCalled =>
          /\ config = [call.cfg EXCEPT !.engine = call.choice]
          /\ config.engine = call.choice
          /\ config.compiler = call.cfg.compiler
    /\ (SetCompilerCalled \/ SetEngineCalled) =>
          /\ last_error = call.slot_before
          /\ call.writes = 0
          /\ ~panicked

\* Every choice can be set in every configuration, compiled in or not.
SetterAcceptsEveryChoice ==
    config # NoConfig =>
        /\ \A e \in wasmer_engine_t :
              ENABLED (Call_wasm_config_set_engine /\ config'.engine = e)
        /\ "compiler" \in features =>
              \A c \in wasmer_compiler_t :
                  ENABLED (Call_wasm_config_set_compiler /\ config'.compiler = c)

\* C18: wasm_config_set_compiler and wasm_config_set_engine accept every
\* choice, compiled in or not, and record it: the other selection, the
\* engine the embedder holds and the last-error slot stay as they were.
\* wasm_engine_new_with_config then acts on the configuration as the setters
\* left it: the engine it returns is of the kind last set, around the
\* compiler last set or headless, and the error it records names a backend
\* last set.
C18_SettersRecordWithoutValidating ==
    /\ [](SetterRecorded /\ SetterAcceptsEveryChoice)
    /\ [][call'.fn \in {"wasm_config_set_compiler", "wasm_config_set_engine"} =>
            /\ call'.cfg = config
            /\ engine' = engine
            /\ last_error' = last_error
         ]_vars
    /\ [][call'.fn = "wasm_engine_new_with_config" =>
            /\ call'.cfg = config
            /\ engine'.tag = "handle" =>
                  /\ engine'.kind = EngineFeatureOf(config.engine)
                  /\ engine'.compiler \in
                        {"headless"} \cup
                        (IF "compiler" \in features
                         THEN {CompilerFeatureOf(config.compiler)} ELSE {})
            /\ engine' = Absent =>
                  \E f \in SelectedFeatures(features, config) :
                      last_error' = NotCompiledWith(f)
         ]_vars

\* C18 witness: a compiler that is not compiled in was set, over another
\* one, while the slot held an error and the embedder an engine.
C18_Witness ==
    /\ SetCompilerCalled
    /\ CompilerFeatureOf(call.choice) \notin features
    /\ call.cfg.compiler # call.choice
    /\ config.compiler = call.choice
    /\ last_error # NoError
    /\ engine.tag = "handle"

\* What wasm_engine_new_with_config makes of a configuration as the first
\* call of a process: nothing built before, the last-error slot empty.
FirstBuild(F, cfg) == wasm_engine_new_with_config(F, NoError, cfg)

\* C19: in one build of the crate, what wasm_engine_new_with_config makes of
\* a configuration is decided by the configuration alone: the engine it
\* returns (its kind, and its compiler or none) or the error it records is
\* the one the same configuration gets as the first call of a process,
\* whatever the slot held and whatever was built before.
C19_BuildDecidedByConfiguration ==
    Built =>
        LET first == FirstBuild(features, call.cfg) IN
        /\ engine = first.ret
        /\ call.writes = first.writes
        /\ engine = Absent => last_error = first.slot
        /\ engine # Absent => last_error = call.slot_before

\* C19 witness: a configuration was refused while the slot held the error
\* of an earlier, different refusal.
C19_Witness ==
    /\ Built
    /\ engine = Absent
    /\ call.slot_before # NoError
    /\ call.slot_before # last_error

\* The engine a build makes by default: the first compiled-in engine in
\* the order jit, native, object-file, around the first compiled-in compiler
\* in the order cranelift, llvm, singlepass when the build has compilers and
\* the engine is jit or native, and headless otherwise.
DefaultEngine(F) ==
    LET kind == IF "jit" \in F THEN "jit"
                ELSE IF "native" \in F THEN "native"
                ELSE "object-file"
        compiler == IF "cranelift" \in F THEN "cranelift"
                    ELSE IF "llvm" \in F THEN "llvm"
                    ELSE "singlepass" IN
    Handle(kind, IF "compiler" \in F /\ kind \in {"jit", "native"}
                 THEN compiler ELSE "headless")

\* The latest call was wasm_engine_new_with_config(wasm_config_new()).
BuiltFromDefaults == Built /\ call.cfg = wasm_config_new(features)

\* C21: in every build, wasm_engine_new() and
\* wasm_engine_new_with_config(wasm_config_new()) return the same engine:
\* the default engine of the build, of the same kind and around the same
\* compiler or headless alike; each returns what the other would.
C21_NewIsBuildOfDefaults ==
    /\ call.fn = "wasm_engine_new" =>
          /\ engine = DefaultEngine(features)
          /\ engine = FirstBuild(features, wasm_config_new(features)).ret
    /\ BuiltFromDefaults =>
          /\ engine = DefaultEngine(features)
          /\ engine = wasm_engine_new(features, last_error).ret

\* C21 witness: in a build with compilers but without cranelift and without
\* jit, the default configuration was built into an engine that is not
\* headless.
C21_Witness ==
    /\ BuiltFromDefaults
    /\ "compiler" \in features
    /\ "cranelift" \notin features
    /\ "jit" \notin features
    /\ engine.tag = "handle"
    /\ engine.compiler # "headless"
    /\ engine = wasm_engine_new(features, last_error).ret

(***************************************************************************)
(*                    Properties of engine/export.rs                       *)
(***************************************************************************)

\* The metadata objects registered so far whose master host environment is
\* not null.
WithMaster == {m \in MetaIds : metas[m].state # "unborn" /\ metas[m].host_env # NULL}

\* The number of Export values that hold metadata m.
Holders(m) ==
    BagCardinality([e \in {x \in Held : MetadataOf(x) = Some(m)} |-> exports[e]])

\* The calls of host_env_drop_fn on the master host environment of m.
MasterDrops(m) == drop_calls[metas[m].host_env]

\* Every Export that held m is dropped and every Arc::drop has returned.
AllDropped(m) == Holders(m) = 0 /\ InFlight(m) = {}

\* C1: host_env_drop_fn is not called on the master host environment while an
\* Export holds the metadata, and has been called exactly once when all the
\* Exports that shared it are dropped, in whatever order.
C1_MasterDroppedOnceAfterLastExport ==
    \A m \in WithMaster :
        /\ Holders(m) >= 1 => MasterDrops(m) = 0
        /\ AllDropped(m) => MasterDrops(m) = 1
        /\ MasterDrops(m) <= 1

\* C1 witness: MaxExports Exports shared one metadata and all are dropped.
C1_Witness ==
    \E m \in WithMaster :
        /\ metas[m].peak = MaxExports
        /\ metas[m].peak >= 2
        /\ AllDropped(m)
        /\ MasterDrops(m) = 1

\* C2: when two threads drop the last two references at the same time, one
\* of them, and only one, calls host_env_drop_fn on the master host
\* environment: the one whose decrement found the count at 1.
C2_ConcurrentLastDropsReleaseOnce ==
    \A m \in WithMaster :
        metas[m].raced =>
            /\ MasterDrops(m) <= 1
            /\ InFlight(m) = {} => MasterDrops(m) = 1
            /\ MasterDrops(m) = 0 =>
                  Cardinality({t \in InFlight(m) : threads[t].old = 1}) = 1

\* C2 witness: the Arc::drop of the last two references overlapped, both
\* have returned, and the master host environment was dropped.
C2_Witness ==
    \E m \in WithMaster :
        /\ metas[m].raced
        /\ InFlight(m) = {}
        /\ MasterDrops(m) = 1

\* C8: an Export that went to VMExport and back is the same Table, Memory or
\* Global; a Function comes back with the same vm_function and no metadata.
C8_RoundTrip ==
    conv.dst # NoExport =>
        IF conv.src.tag = "Function"
        THEN /\ conv.dst.tag = "Function"
             /\ conv.dst.vm_function = conv.src.vm_function
             /\ conv.dst.metadata = None
        ELSE conv.dst = conv.src

\* C8 witness: a Function with metadata has gone to VMExport and back.
C8_Witness ==
    /\ conv.dst # NoExport
    /\ conv.src.tag = "Function"
    /\ conv.src.metadata # None

\* The instances that were given a clone of a host environment.
Cloned == {i \in InstanceIds : instances[i].state # "none"}

\* The instances whose clone occupies memory, and those whose clone is the
\* Box of a zero-sized value.
SizedClones == {i \in Cloned : instances[i].env \in Ptrs}

ZeroSizedClones == {i \in Cloned : instances[i].env = Dangling}

\* The metadata objects destroyed so far whose master was the Box of a
\* zero-sized value.
ZeroSizedMastersDropped ==
    {m \in MetaIds : metas[m].state = "released" /\ metas[m].host_env = Dangling}

\* The owners of a zero-sized host environment that have let go of it: the
\* instances torn down and the metadata objects destroyed.  Each has called
\* host_env_drop_fn once, on the one pointer they all hold.
ZeroSizedDrops ==
    Cardinality({i \in ZeroSizedClones : instances[i].state = "torn"})
    + Cardinality(ZeroSizedMastersDropped)

Destroyed(m) == metas[m].state = "registered" /\ metas'[m].state = "released"

C13_NullMasterNeverDropped ==
    /\ [][\A m \in MetaIds : Destroyed(m) =>
            drop_calls' =
                (IF metas[m].host_env = NULL
                 THEN drop_calls
                 ELSE [drop_calls EXCEPT ![metas[m].host_env] = @ + 1])
         ]_vars
    /\ [](drop_calls[NULL] = 0)

\* C13 witness: a metadata registered with a null master was shared, and is
\* destroyed.
C13_Witness ==
    \E m \in MetaIds :
        /\ metas[m].state = "released"
        /\ metas[m].host_env = NULL
        /\ metas[m].peak >= 2

\* The last owner of m is inside Arc::drop: it has taken the strong count to
\* zero and Drop for ExportFunctionMetadata has not yet run.
Releasing(m) == \E t \in InFlight(m) : threads[t].old = 1

\* The instance i is created in this step, with a clone of a master.
ClonedNow(i) == instances[i].state = "none" /\ instances'[i].state # "none"

\* The calls of host_env_drop_fn on the pointer of the master of m that are
\* not m's own: those of the instances torn down whose clone has that
\* pointer, and of the other metadata objects destroyed whose master has it.
DropsOfOthers(m) ==
    Cardinality({i \in Cloned : /\ instances[i].env = metas[m].host_env
                                 /\ instances[i].state = "torn"})
    + Cardinality({n \in MetaIds \ {m} :
                      /\ metas[n].state = "released"
                      /\ metas[n].host_env = metas[m].host_env})

Shared(m) ==
    /\ metas[m].state = "registered"
    /\ Holders(m)' = Holders(m) + 1

\* C15: cloning an Export::Function shares its metadata: the strong count
\* goes up by one, the metadata is otherwise the same, no host environment
\* is allocated by host_env_clone_fn and none is dropped; and the strong
\* count of a metadata is always the number of Exports that hold it.
C15_ShareCountsOneOwner ==
    /\ [](\A m \in MetaIds : metas[m].strong = Holders(m))
    /\ [][\A m \in MetaIds : Shared(m) =>
            /\ metas'[m].strong = metas[m].strong + 1
            /\ metas'[m].host_env = metas[m].host_env
            /\ metas'[m].init = metas[m].init
            /\ metas'[m].state = "registered"
            /\ allocated' = allocated
            /\ drop_calls' = drop_calls
            /\ instances' = instances
         ]_vars

\* C15 witness: MaxExports Exports hold one metadata; its master is the only
\* host environment allocated, and nothing was dropped.
C15_Witness ==
    \E m \in WithMaster :
        /\ Holders(m) = MaxExports
        /\ metas[m].strong = MaxExports
        /\ MaxExports >= 2
        /\ allocated = 1
        /\ \A p \in DOMAIN drop_calls : drop_calls[p] = 0

\* The calls of its initializer an instance in this state has had: none
\* before it is complete, and from then on one when it was given an
\* initializer and none when it was not.
InitCallsOf(inst) ==
    IF inst.state \in {"initialized", "torn"} /\ inst.init THEN 1 ELSE 0

DescriptorOf(e) ==
    CASE e.tag = "Function" -> e.vm_function
      [] e.tag = "Table" -> e.vm_table
      [] e.tag = "Memory" -> e.vm_memory
      [] e.tag = "Global" -> e.vm_global

\* The steps of VMExport::from: of an Export without metadata, one step; of
\* an Export with metadata, the step that builds the VMExport and decrements
\* the strong count, and the step in which Arc::drop returns.
PureConversion ==
    conv.vm = NoVMExport /\ conv'.vm # NoVMExport /\ threads' = threads

Converting(t) == threads[t] = Idle /\ threads'[t].via = "into"

ConvertingDone(t) ==
    threads[t].pc = "fetched" /\ threads[t].via = "into" /\ threads'[t] = Idle

\* The VMExport of every conversion made is the variant of the Export with
\* the Export's descriptor in it, whatever metadata a Function carried.
ResultFromDescriptor ==
    conv.vm # NoVMExport =>
        conv.vm = [tag |-> conv.src.tag, inner |-> DescriptorOf(conv.src)]

\* C17 as claimed: VMExport::from is defined on the four variants, its
\* result is made of the variant and the descriptor alone, and it has no
\* effect besides: in particular it calls no host_env_drop_fn.
C17_ToInternalPureAndTotal ==
    /\ []ResultFromDescriptor
    /\ [][(\/ PureConversion
           \/ \E t \in Threads : Converting(t) \/ ConvertingDone(t))
          => drop_calls' = drop_calls]_vars

\* C17 amended: VMExport::from is defined on the four variants and its result
\* is made of the variant and the descriptor alone.  On an Export without
\* metadata it has no effect besides.  On a Function with metadata it drops
\* that metadata reference, and has no other effect: no other metadata, no
\* pointer but that metadata's master, no instance and no initializer is
\* touched.
C17_ToInternalTotalDroppingMetadata ==
    /\ []ResultFromDescriptor
    /\ [][PureConversion =>
            /\ conv'.src = conv.src
            /\ UNCHANGED <<metas, exports, allocated, drop_calls, init_calls,
                           instances>>
         ]_vars
    /\ [][\A t \in Threads : (Converting(t) \/ ConvertingDone(t)) =>
            LET m == IF Converting(t) THEN threads'[t].m ELSE threads[t].m IN
            /\ \A n \in MetaIds \ {m} : metas'[n] = metas[n]
            /\ metas'[m].host_env = metas[m].host_env
            /\ \A p \in DOMAIN drop_calls :
                  (p # metas[m].host_env \/ p = NULL) =>
                      drop_calls'[p] = drop_calls[p]
            /\ UNCHANGED <<allocated, init_calls, instances>>
         ]_vars

\* C17 witness: the last Export::Function that held a metadata was converted:
\* the VMExport holds its descriptor, and the master was dropped by the
\* conversion.
C17_Witness ==
    /\ conv.src.tag = "Function"
    /\ conv.src.metadata # None
    /\ conv.vm = VMExport_Function(conv.src.vm_function)
    /\ \A t \in Threads : threads[t] = Idle
    /\ metas[conv.src.metadata.arc].state = "released"
    /\ metas[conv.src.metadata.arc].host_env # NULL
    /\ MasterDrops(conv.src.metadata.arc) = 1

\* C20: VMExport::from of an Export::Function with metadata consumes the
\* Export and gives up its reference: the metadata has one holder and one
\* strong reference less.  When that reference was the last, the conversion
\* calls host_env_drop_fn on the master, the only call there ever is on it;
\* when it was not, or the master is null, the conversion calls nothing.
C20_ConversionReleasesMetadata ==
    /\ [][\A t \in Threads : Converting(t) =>
            LET m == threads'[t].m IN
            /\ conv'.src \in Held
            /\ exports' = exports (-) SetToBag({conv'.src})
            /\ MetadataOf(conv'.src) = Some(m)
            /\ metas'[m].strong = metas[m].strong - 1
            /\ threads'[t].old = metas[m].strong
            /\ drop_calls' = drop_calls
         ]_vars
    /\ [][\A t \in Threads : ConvertingDone(t) =>
            LET m == threads[t].m
                last == threads[t].old = 1 IN
            /\ last => Holders(m) = 0
            /\ drop_calls' =
                  (IF last /\ metas[m].host_env # NULL
                   THEN [drop_calls EXCEPT ![metas[m].host_env] = 1]
                   ELSE drop_calls)
            /\ metas'[m].state = (IF last THEN "released" ELSE metas[m].state)
         ]_vars

\* C20 witness: MaxExports Exports held one metadata and every one of them
\* was converted: the master was dropped, once, by the last conversion.
C20_Witness ==
    \E m \in WithMaster :
        /\ metas[m].peak = MaxExports
        /\ MaxExports >= 2
        /\ AllDropped(m)
        /\ metas[m].state = "released"
        /\ conv.src = Export_Function(FirstDescriptor, Some(m))
        /\ conv.vm = VMExport_Function(FirstDescriptor)
        /\ MasterDrops(m) = 1

====
